---- MODULE Spec2Model ----
(***************************************************************************)
(* Cranium voice: the fallback orchestrator (src/voice/tts.py) and the     *)
(* Piper daemon's connection handler (src/voice/tts_daemon.py).            *)
(*                                                                         *)
(* Four specifications share the module's variables:                       *)
(*   SpecOrch    one run of tts.py main(), with the file system and the    *)
(*               three backends as its environment;                        *)
(*   SpecHandler one daemon connection served by handle_client, the peer's *)
(*               byte stream cut into reads in every possible way;         *)
(*   SpecStartup daemon processes starting on the one socket path, up to   *)
(*               the accept loop, with clients of two users connecting;    *)
(*   SpecServe   one daemon in its accept loop and its handler threads,    *)
(*               every thread but the first one scheduled fairly.          *)
(* Text is a sequence of characters, so that str.strip() is computed; a    *)
(* path is a string, of which only emptiness and type are ever tested.     *)
(***************************************************************************)
EXTENDS Integers, Sequences, FiniteSets, TLC

VARIABLES
    \* ---- tts.py main() ----
    argv,       \* sys.argv[1:]
    stdin,      \* what sys.stdin.read() returns
    opc,        \* position of main()
    text,       \* local `text`
    output,     \* local `output`
    status,     \* exit status of the process once opc = "exited"
    fs,         \* the file system: does DAEMON_SOCKET / PIPER_MODEL exist
    running,    \* backends whose call has begun and not yet ended
    attempts,   \* history: backends in the order their call began
    outcome,    \* history: backend -> "none" | "ok" | "error"
    saw,        \* history: what each os.path.exists() call returned
    session,    \* history: what the daemon connection did during tts_via_daemon
    \* ---- tts_daemon.py handle_client(conn, voice), per connection ----
    wire,       \* bytes the peer has still to send
    peer,       \* "open" | "eof" (peer shut its sending side) | "reset"
    rx,         \* history: every byte recv() has returned so far
    joined,     \* history: some recv() added bytes to an unfinished frame in buf
    buf,        \* local `buf`
    hpc,        \* position of the handler
    req,        \* the request being served (text stripped, output, frame number)
    out,        \* the response about to be written by conn.sendall
    responses,  \* history: response frames written to the connection
    processed,  \* history: the non-blank lines taken from buf, in order
    synthLog,   \* history: the calls of voice.synthesize_wav and how each ended
    encLog,     \* history: the runs of the external encoder and their exit status
                \* (-1 while it runs, -2 when it could not be started)
    \* ---- tts_daemon.py main(), per daemon process ----
    dpc,        \* position of main()
    dstatus,    \* exit status of the process once dpc = "exited"
    dlog,       \* what the process has printed
    voice,      \* local `voice`: "none" | "loaded" | "failed"
    lsock,      \* local `server`: "none" | "bound" | "listening" | "closed"
    removed,    \* history: what os.unlink removed: "nothing", or the socket file of
                \* a process that is gone ("stale"), "starting" or "serving"
    \* ---- the environment of the daemons ----
    sockfile,   \* the file at SOCKET_PATH: the process whose socket it names
                \* (0: no file) and the users its mode lets connect
    umask,      \* the umask the daemons are started under
    \* ---- per connection ----
    cdaemon,    \* the daemon process the connection was made to (0: none)
    cuser,      \* the user whose process connected
    copen       \* the daemon's socket object `conn` is open

orchVars == <<argv, stdin, opc, text, output, status, fs, running, attempts,
              outcome, saw, session>>
connVars == <<wire, peer, rx, joined, buf, hpc, req, out, responses, processed,
              synthLog, encLog>>
daemonVars == <<dpc, dstatus, dlog, voice, lsock, removed, sockfile, umask,
                cdaemon, cuser, copen>>
vars == <<orchVars, connVars, daemonVars>>

-----------------------------------------------------------------------------
(* Strings *)

WS == {" "}

RECURSIVE lstrip(_)
lstrip(s) == IF s # <<>> /\ Head(s) \in WS THEN lstrip(Tail(s)) ELSE s

RECURSIVE rstrip(_)
rstrip(s) ==
    IF s # <<>> /\ s[Len(s)] \in WS THEN rstrip(SubSeq(s, 1, Len(s) - 1)) ELSE s

\* str.strip() / bytes.strip()
strip(s) == rstrip(lstrip(s))

RECURSIVE Concat(_)
Concat(ss) == IF ss = <<>> THEN <<>> ELSE Head(ss) \o Concat(Tail(ss))

-----------------------------------------------------------------------------
(* tts.py *)

Backends == <<"network", "daemon", "direct">>

Texts == { <<>>, <<" ">>, <<"h", "i">>, <<" ", "h", "i", " ">> }
Outputs == { "", "/tmp/x.mp3" }
Argvs == { <<>> } \cup { <<t>> : t \in Texts }
                  \cup { <<t, o>> : t \in Texts, o \in Outputs }

\* What the daemon's end of the connection does during one tts_via_daemon call:
\* connect and sendall succeed, time out or fail; then recv() returns the chunks
\* in turn and after them `last`: "eof" (b''), "timeout" or "error".
\* Response bytes: "T" is {"ok": true}, "F" is {"ok": false, "error": ...},
\* "P" is a truncated payload, "J" is a JSON value that is no object.
Sessions ==
    { [connect |-> c, chunks |-> <<>>, last |-> "error"] : c \in {"timeout", "error"} }
    \cup
    { [connect |-> "ok", chunks |-> ch, last |-> l] :
        ch \in { <<>>, << <<"T", "\n">> >>, << <<"F", "\n">> >>, << <<"P">> >>,
                 << <<"T">> >>, << <<"J", "\n">> >>, << <<"P">>, <<"P", "\n">> >>,
                 << <<"T", "\n", "F", "\n">> >>, << <<" ">>, <<"T", " ", "\n">> >> },
        l \in {"eof", "timeout", "error"} }

\* tts.py:24-31: the receive loop. "raise" when recv() raises before the loop ends.
RECURSIVE recv_loop(_, _, _)
recv_loop(resp, chunks, last) ==
    IF chunks = <<>>
    THEN IF last = "eof" THEN resp ELSE "raise"
    ELSE LET r == resp \o Head(chunks)
         IN IF \E i \in 1..Len(r) : r[i] = "\n" THEN r
            ELSE recv_loop(r, Tail(chunks), last)

JsonWS == {" ", "\n"}

RECURSIVE lstripJ(_)
lstripJ(s) == IF s # <<>> /\ Head(s) \in JsonWS THEN lstripJ(Tail(s)) ELSE s

RECURSIVE rstripJ(_)
rstripJ(s) ==
    IF s # <<>> /\ s[Len(s)] \in JsonWS THEN rstripJ(SubSeq(s, 1, Len(s) - 1)) ELSE s

\* tts.py:32-34: json.loads(resp.strip()) and the test of result.get('ok').
response_ok(resp) ==
    LET body == rstripJ(lstripJ(resp))
    IN  body = <<"T">>

\* Faulty variant: the test of result.get('ok') is left out.
tts_via_daemon_unchecked(s) ==
    IF s.connect # "ok" THEN "raise"
    ELSE LET resp == recv_loop(<<>>, s.chunks, s.last)
         IN IF resp = "raise" THEN "raise"
            ELSE IF rstripJ(lstripJ(resp)) \in { <<"T">>, <<"F">> } THEN "return"
            ELSE "raise"

\* tts.py:18-34
tts_via_daemon(s) ==
    IF s.connect # "ok" THEN "raise"
    ELSE LET resp == recv_loop(<<>>, s.chunks, s.last)
         IN IF resp = "raise" THEN "raise"
            ELSE IF response_ok(resp) THEN "return"
            ELSE "raise"

\* What one os.path.exists() call returned.
Seen(b) == IF b THEN "yes" ELSE "no"

NoSession == [connect |-> "none", chunks |-> <<>>, last |-> "none"]

Begin(b) ==
    /\ running' = running \cup {b}
    /\ attempts' = Append(attempts, b)

End(b, r) ==
    /\ running' = running \ {b}
    /\ outcome' = [outcome EXCEPT ![b] = r]

\* `return` from main(): the interpreter exits with status 0.
Return ==
    /\ opc' = "exited"
    /\ status' = 0

\* sys.exit(n)
Exit(n) ==
    /\ opc' = "exited"
    /\ status' = n

\* tts.py:69-77
ParseArgs ==
    /\ opc = "args"
    /\ IF Len(argv) > 1
       THEN text' = argv[1] /\ output' = argv[2]
       ELSE IF Len(argv) > 0
       THEN text' = argv[1] /\ output' = "/dev/stdout"
       ELSE text' = stdin /\ output' = "/dev/stdout"
    /\ opc' = "check"
    /\ UNCHANGED <<argv, stdin, status, fs, running, attempts, outcome, saw, session>>
    /\ UNCHANGED <<connVars, daemonVars>>

\* Faulty variant: the text is tested without strip().
IsBlankUnstripped(t) == t = <<>>

\* tts.py:79: not text.strip()
IsBlank(t) == strip(t) = <<>>

\* tts.py:79-80
CheckText ==
    /\ opc = "check"
    /\ IF IsBlank(text)
       THEN Exit(0)
       ELSE opc' = "edge" /\ UNCHANGED status
    /\ UNCHANGED <<argv, stdin, text, output, fs, running, attempts, outcome, saw, session>>
    /\ UNCHANGED <<connVars, daemonVars>>

\* tts.py:83-85: the call of tts_edge begins
EdgeBegin ==
    /\ opc = "edge"
    /\ Begin("network")
    /\ opc' = "edge_run"
    /\ UNCHANGED <<argv, stdin, text, output, status, fs, outcome, saw, session>>
    /\ UNCHANGED <<connVars, daemonVars>>

\* Faulty variant: the `return` after a successful tts_edge is missing.
EdgeOkFallsThrough ==
    /\ opc' = "daemon_sock"
    /\ UNCHANGED status

\* tts.py:86: tts_edge returned
EdgeOk == Return

\* tts.py:85-88: tts_edge returns, or raises and the failure is logged
EdgeEnd ==
    /\ opc = "edge_run"
    /\ \E r \in {"ok", "error"} :
        /\ End("network", r)
        /\ IF r = "ok"
           THEN EdgeOk
           ELSE opc' = "daemon_sock" /\ UNCHANGED status
    /\ UNCHANGED <<argv, stdin, text, output, fs, attempts, saw, session>>
    /\ UNCHANGED <<connVars, daemonVars>>

\* tts.py:91, first operand: os.path.exists(DAEMON_SOCKET)
DaemonGuardSocket ==
    /\ opc = "daemon_sock"
    /\ saw' = [saw EXCEPT !.socket91 = Seen(fs.socket)]
    /\ opc' = IF fs.socket THEN "daemon_model" ELSE "direct_model"
    /\ UNCHANGED <<argv, stdin, text, output, status, fs, running, attempts, outcome, session>>
    /\ UNCHANGED <<connVars, daemonVars>>

\* Faulty variant: the daemon is tried whatever the second test returned.
DaemonGuardModelIgnored ==
    /\ saw' = [saw EXCEPT !.model91 = Seen(fs.model)]
    /\ opc' = "daemon"

\* tts.py:91, second operand: os.path.exists(PIPER_MODEL)
DaemonGuardModelTest ==
    /\ saw' = [saw EXCEPT !.model91 = Seen(fs.model)]
    /\ opc' = IF fs.model THEN "daemon" ELSE "direct_model"

DaemonGuardModel ==
    /\ opc = "daemon_model"
    /\ DaemonGuardModelTest
    /\ UNCHANGED <<argv, stdin, text, output, status, fs, running, attempts, outcome, session>>
    /\ UNCHANGED <<connVars, daemonVars>>

\* tts.py:93: the call of tts_via_daemon begins
DaemonBegin ==
    /\ opc = "daemon"
    /\ Begin("daemon")
    /\ opc' = "daemon_run"
    /\ UNCHANGED <<argv, stdin, text, output, status, fs, outcome, saw, session>>
    /\ UNCHANGED <<connVars, daemonVars>>

\* tts.py:93-96: tts_via_daemon returns, or raises and the failure is logged
DaemonEnd ==
    /\ opc = "daemon_run"
    /\ \E s \in Sessions :
        /\ session' = s
        /\ IF tts_via_daemon(s) = "return"
           THEN End("daemon", "ok") /\ Return
           ELSE End("daemon", "error") /\ opc' = "direct_model" /\ UNCHANGED status
    /\ UNCHANGED <<argv, stdin, text, output, fs, attempts, saw>>
    /\ UNCHANGED <<connVars, daemonVars>>

\* tts.py:99: os.path.exists(PIPER_MODEL); the function ends after a false test
DirectGuard ==
    /\ opc = "direct_model"
    /\ saw' = [saw EXCEPT !.model99 = Seen(fs.model)]
    /\ IF fs.model
       THEN opc' = "direct" /\ UNCHANGED status
       ELSE Return
    /\ UNCHANGED <<argv, stdin, text, output, fs, running, attempts, outcome, session>>
    /\ UNCHANGED <<connVars, daemonVars>>

\* tts.py:101: the call of tts_piper_direct begins
DirectBegin ==
    /\ opc = "direct"
    /\ Begin("direct")
    /\ opc' = "direct_run"
    /\ UNCHANGED <<argv, stdin, text, output, status, fs, outcome, saw, session>>
    /\ UNCHANGED <<connVars, daemonVars>>

\* tts.py:101-105: tts_piper_direct returns, or raises and main exits with 1
DirectEnd ==
    /\ opc = "direct_run"
    /\ \E r \in {"ok", "error"} :
        /\ End("direct", r)
        /\ IF r = "ok" THEN Return ELSE Exit(1)
    /\ UNCHANGED <<argv, stdin, text, output, fs, attempts, saw, session>>
    /\ UNCHANGED <<connVars, daemonVars>>

-----------------------------------------------------------------------------
(* tts_daemon.py *)

MaxConns == 2
MaxFrames == 2
RECV_SIZE == 4096
STDERR_CAP == 200

Conns == 1..MaxConns

\* The bytes of a request stream. A frame is a JSON object written without its
\* braces, one token per member, ended by "\n":
\*   "t"  "text": " hi"     "tw" "text": "  "      "tn" "text": 5
\*   "o"  "output": "/tmp/a.mp3"   "oe" "output": ""   "on" "output": 5
\*   "j"  a JSON value that is no object, "x" bytes that are not JSON,
\*   " "  white space.
Hi == <<"h", "i">>
PathA == <<"/tmp/a.mp3">>

FrameKinds ==
    { <<"t", "o", "\n">>, <<"t", "\n">>, <<"o", "\n">>, <<"tw", "o", "\n">>,
      <<"t", "oe", "\n">>, <<"x", "\n">>, <<"j", "\n">>, <<"tn", "o", "\n">>,
      <<"t", "on", "\n">>, <<" ", "\n">>, <<"\n">>, <<" ", "t", " ", "o", "\n">> }

RECURSIVE WiresOf(_)
WiresOf(n) ==
    IF n = 0 THEN { <<>> }
    ELSE LET w == WiresOf(n - 1) IN w \cup { f \o x : f \in FrameKinds, x \in w }

Wires == WiresOf(MaxFrames)

Min(a, b) == IF a < b THEN a ELSE b

\* Python values of the members of a request.
Str(v) == [kind |-> "str", v |-> v]
Num == [kind |-> "num", v |-> <<>>]
Absent == [kind |-> "absent", v |-> <<>>]

TextToks == {"t", "tw", "tn"}
OutputToks == {"o", "oe", "on"}

ValueOf(t) ==
    CASE t = "t" -> Str(<<" ">> \o Hi)
      [] t = "tw" -> Str(<<" ", " ">>)
      [] t = "o" -> Str(PathA)
      [] t = "oe" -> Str(<<>>)
      [] OTHER -> Num

\* The value a JSON object gives a key: that of its last member with the key.
Member(toks, keys) ==
    LET at == { i \in 1..Len(toks) : toks[i] \in keys }
    IN IF at = {} THEN Absent
       ELSE ValueOf(toks[CHOOSE i \in at : \A j \in at : j <= i])

\* str(e) of the exceptions the handler can catch: what raised it, its length.
Msg(what, len) == [what |-> what, len |-> len]

\* tts_daemon.py:53: json.loads(line)
json_loads(line) ==
    LET toks == SelectSeq(line, LAMBDA t : t # " ")
    IN IF toks = <<"j">> THEN [type |-> "value"]
       ELSE IF toks = <<>> \/ \E i \in 1..Len(toks) : toks[i] \notin TextToks \cup OutputToks
       THEN [type |-> "JSONDecodeError"]
       ELSE [type |-> "dict", text |-> Member(toks, TextToks),
             output |-> Member(toks, OutputToks)]

\* dict.get(key, '')
Get(v) == IF v.kind = "absent" THEN Str(<<>>) ELSE v

\* Python's truth value of a member
Truthy(v) == IF v.kind = "str" THEN v.v # <<>> ELSE v.kind = "num"

\* Faulty variant: the text is not stripped before it is tested.
stripped_text_unstripped(v) == v.v

\* tts_daemon.py:54: .strip() of the text
stripped_text(v) == strip(v.v)

\* tts_daemon.py:53-56: the request read from a line, up to the validation.
\*   "raise"   an exception reached line 61, with str(e)
\*   "missing" line 56 found no text or no output
\*   "valid"   synthesize is called with text and output
Decode(line) ==
    LET j == json_loads(line)
    IN IF j.type = "JSONDecodeError"
       THEN [is |-> "raise", error |-> Msg("JSONDecodeError", 41)]
       ELSE IF j.type = "value"
       THEN [is |-> "raise", error |-> Msg("AttributeError", 36)]
       ELSE IF Get(j.text).kind # "str"
       THEN [is |-> "raise", error |-> Msg("AttributeError", 37)]
       ELSE LET txt == stripped_text(Get(j.text))
                outp == Get(j.output)
            IN IF txt = <<>> \/ ~Truthy(outp)
               THEN [is |-> "missing"]
               ELSE [is |-> "valid", text |-> txt, output |-> outp]

\* Faulty variant: an error response without its error member.
error_response_bare(msg) == [ok |-> FALSE]

\* tts_daemon.py:57, 62: {'ok': False, 'error': ...}
error_response(msg) == [ok |-> FALSE, error |-> msg]

\* tts_daemon.py:60: {'ok': True}
ok_response == [ok |-> TRUE]

MissingMsg == Msg("missing text or output", 22)

\* What the collaborators can do: the lengths of the message of an exception
\* raised by voice.synthesize_wav (an exception of the voice model is taken to
\* carry a message), and of what the encoder writes to stderr.
ModelErrLens == {12, 300}
StderrLens == {0, 450}

HasNl(s) == \E i \in 1..Len(s) : s[i] = "\n"
FirstNl(s) == CHOOSE i \in 1..Len(s) : s[i] = "\n" /\ \A j \in 1..(i - 1) : s[j] # "\n"

NoReq == [n |-> 0, text |-> <<>>, output |-> Absent]

connUnchangedByEnv(c) == UNCHANGED <<rx, joined, buf, hpc, req, out, responses, processed, synthLog, encLog>>

\* Faulty variant: the chunk replaces the buffer.
Accumulate_overwrite(b, chunk) == chunk

\* tts_daemon.py:47: buf += chunk
Accumulate(b, chunk) == b \o chunk

\* tts_daemon.py:44-47: recv returns the next bytes of the stream, cut anywhere
Recv(c) ==
    /\ hpc[c] = "recv"
    /\ peer[c] = "open"
    /\ \E n \in 1..Min(Len(wire[c]), RECV_SIZE) :
        /\ rx' = [rx EXCEPT ![c] = @ \o SubSeq(wire[c], 1, n)]
        /\ joined' = [joined EXCEPT ![c] = @ \/ buf[c] # <<>>]
        /\ buf' = [buf EXCEPT ![c] = Accumulate(@, SubSeq(wire[c], 1, n))]
        /\ wire' = [wire EXCEPT ![c] = SubSeq(@, n + 1, Len(@))]
    /\ hpc' = [hpc EXCEPT ![c] = "lines"]
    /\ UNCHANGED <<peer, req, out, responses, processed, synthLog, encLog>>
    /\ UNCHANGED <<orchVars, daemonVars>>

\* Faulty variant: without try/finally an exception ends the thread at once.
Leave_unclosed(c, cause) ==
    hpc' = [hpc EXCEPT ![c] = IF cause = "raise" THEN "closed" ELSE "finally"]

\* tts_daemon.py:41, 63: the try block is left, by break or by an exception
\* nothing in it catches: the finally clause runs next
Leave(c, cause) == hpc' = [hpc EXCEPT ![c] = "finally"]

\* tts_daemon.py:44-46: recv returns b'' (the peer shut its side) and the loop
\* is left by break, or recv raises (the connection was reset)
RecvEnd(c) ==
    /\ hpc[c] = "recv"
    /\ peer[c] \in {"eof", "reset"}
    /\ Leave(c, IF peer[c] = "eof" THEN "break" ELSE "raise")
    /\ UNCHANGED <<wire, peer, rx, joined, buf, req, out, responses, processed, synthLog, encLog>>
    /\ UNCHANGED <<orchVars, daemonVars>>

\* tts_daemon.py:48: the buffer holds no whole line: back to recv
NoLine(c) ==
    /\ hpc[c] = "lines"
    /\ ~HasNl(buf[c])
    /\ hpc' = [hpc EXCEPT ![c] = "recv"]
    /\ UNCHANGED <<wire, peer, rx, joined, buf, req, out, responses, processed, synthLog, encLog>>
    /\ UNCHANGED <<orchVars, daemonVars>>

\* Faulty variant: a request without text or output is dropped without a response.
Reject_silent(c, k) ==
    /\ hpc' = [hpc EXCEPT ![c] = "lines"]
    /\ UNCHANGED <<req, out>>

\* tts_daemon.py:56-58: the response to a request without text or output
Reject(c, k) ==
    /\ req' = [req EXCEPT ![c] = [NoReq EXCEPT !.n = k]]
    /\ out' = [out EXCEPT ![c] = error_response(MissingMsg)]
    /\ hpc' = [hpc EXCEPT ![c] = "send"]

\* Faulty variant: an exception is swallowed and no response is written.
Caught_swallowed(c, k, msg) ==
    /\ hpc' = [hpc EXCEPT ![c] = "lines"]
    /\ UNCHANGED <<req, out>>

\* Faulty variant: an exception ends the handler.
Caught_fatal(c, k, msg) ==
    /\ hpc' = [hpc EXCEPT ![c] = "closed"]
    /\ UNCHANGED <<req, out>>

\* tts_daemon.py:61-62: an exception of the try block becomes a response
Caught(c, k, msg) ==
    /\ req' = [req EXCEPT ![c] = [NoReq EXCEPT !.n = k]]
    /\ out' = [out EXCEPT ![c] = error_response(msg)]
    /\ hpc' = [hpc EXCEPT ![c] = "send"]

\* Faulty variant: no line is taken for blank.
is_blank_never(line) == FALSE

\* tts_daemon.py:50: not line.strip()
is_blank(line) == strip(line) = <<>>

\* tts_daemon.py:48-59: the next line is split off the buffer; a blank one is
\* skipped; another one is parsed and validated, and synthesize is called
NextLine(c) ==
    /\ hpc[c] = "lines"
    /\ HasNl(buf[c])
    /\ LET i == FirstNl(buf[c])
           line == SubSeq(buf[c], 1, i - 1)
           k == Len(processed[c]) + 1
           d == Decode(line)
       IN /\ buf' = [buf EXCEPT ![c] = SubSeq(@, i + 1, Len(@))]
          /\ IF is_blank(line)
             THEN UNCHANGED <<hpc, req, out, processed, synthLog>>
             ELSE /\ processed' = [processed EXCEPT ![c] = Append(@, line)]
                  /\ CASE d.is = "raise" -> Caught(c, k, d.error) /\ UNCHANGED synthLog
                       [] d.is = "missing" -> Reject(c, k) /\ UNCHANGED synthLog
                       [] OTHER ->
                            /\ req' = [req EXCEPT ![c] =
                                        [n |-> k, text |-> d.text, output |-> d.output]]
                            /\ synthLog' = [synthLog EXCEPT ![c] =
                                  Append(@, [n |-> k, text |-> d.text, result |-> "running"])]
                            /\ hpc' = [hpc EXCEPT ![c] = "synth"]
                            /\ UNCHANGED out
    /\ UNCHANGED <<wire, peer, rx, joined, responses, encLog>>
    /\ UNCHANGED <<orchVars, daemonVars>>

\* tts_daemon.py:28-35: voice.synthesize_wav returns and the encoder is started
\* (subprocess.run raises TypeError for an output that is no string), or it raises
SynthEnd(c) ==
    /\ hpc[c] = "synth"
    /\ \/ /\ req[c].output.kind = "str"
          /\ synthLog' = [synthLog EXCEPT ![c][Len(synthLog[c])].result = "ok"]
          /\ encLog' = [encLog EXCEPT ![c] =
                Append(@, [n |-> req[c].n, output |-> req[c].output.v, rc |-> -1])]
          /\ hpc' = [hpc EXCEPT ![c] = "encode"]
          /\ UNCHANGED <<req, out>>
       \/ /\ req[c].output.kind # "str"
          /\ synthLog' = [synthLog EXCEPT ![c][Len(synthLog[c])].result = "ok"]
          /\ Caught(c, req[c].n, Msg("TypeError", 50))
          /\ UNCHANGED encLog
       \/ /\ synthLog' = [synthLog EXCEPT ![c][Len(synthLog[c])].result = "error"]
          /\ \E len \in ModelErrLens : Caught(c, req[c].n, Msg("model", len))
          /\ UNCHANGED encLog
    /\ UNCHANGED <<wire, peer, rx, joined, buf, responses, processed>>
    /\ UNCHANGED <<orchVars, daemonVars>>

\* Faulty variant: the encoder's exit status is not looked at.
encoder_failed_unchecked(rc) == FALSE

\* tts_daemon.py:36: result.returncode != 0
encoder_failed(rc) == rc # 0

\* The exit statuses the encoder is run to: success and one failure.
ExitCodes == {0, 1}

\* tts_daemon.py:32-37, 60: the encoder exits; status 0 gives the ok response,
\* another one RuntimeError('ffmpeg: ' + stderr[:200]); or the encoder could not
\* be started at all and subprocess.run raised
EncodeEnd(c) ==
    /\ hpc[c] = "encode"
    /\ \/ \E rc \in ExitCodes :
            /\ encLog' = [encLog EXCEPT ![c][Len(encLog[c])].rc = rc]
            /\ IF encoder_failed(rc)
               THEN \E len \in StderrLens :
                      Caught(c, req[c].n, Msg("ffmpeg", 8 + Min(len, STDERR_CAP)))
               ELSE /\ out' = [out EXCEPT ![c] = ok_response]
                    /\ hpc' = [hpc EXCEPT ![c] = "send"]
                    /\ UNCHANGED req
       \/ /\ encLog' = [encLog EXCEPT ![c][Len(encLog[c])].rc = -2]
          /\ Caught(c, req[c].n, Msg("FileNotFoundError", 60))
    /\ UNCHANGED <<wire, peer, rx, joined, buf, responses, processed, synthLog>>
    /\ UNCHANGED <<orchVars, daemonVars>>

\* tts_daemon.py:57, 60, 62: conn.sendall writes the response; on a reset
\* connection it raises, also at line 62, and the try block is left
Send(c) ==
    /\ hpc[c] = "send"
    /\ IF peer[c] = "reset"
       THEN /\ Leave(c, "raise")
            /\ UNCHANGED responses
       ELSE /\ responses' = [responses EXCEPT ![c] =
                              Append(@, [n |-> req[c].n, frame |-> out[c]])]
            /\ hpc' = [hpc EXCEPT ![c] = "lines"]
    /\ UNCHANGED <<wire, peer, rx, joined, buf, req, out, processed, synthLog, encLog>>
    /\ UNCHANGED <<orchVars, daemonVars>>

\* tts_daemon.py:63-64: finally: conn.close(), and the thread ends
Close(c) ==
    /\ hpc[c] = "finally"
    /\ copen' = [copen EXCEPT ![c] = FALSE]
    /\ hpc' = [hpc EXCEPT ![c] = "closed"]
    /\ UNCHANGED <<wire, peer, rx, joined, buf, req, out, responses, processed, synthLog, encLog>>
    /\ UNCHANGED <<dpc, dstatus, dlog, voice, lsock, removed, sockfile, umask, cdaemon, cuser>>
    /\ UNCHANGED orchVars

\* The peer shuts down its sending side: what it had not yet sent is never sent.
PeerShutdown(c) ==
    /\ hpc[c] \notin {"none", "closed"}
    /\ peer[c] = "open"
    /\ peer' = [peer EXCEPT ![c] = "eof"]
    /\ wire' = [wire EXCEPT ![c] = <<>>]
    /\ connUnchangedByEnv(c)
    /\ UNCHANGED <<orchVars, daemonVars>>

\* The peer goes away: reads and writes on the connection fail from now on.
PeerReset(c) ==
    /\ hpc[c] \notin {"none", "closed"}
    /\ peer[c] \in {"open", "eof"}
    /\ peer' = [peer EXCEPT ![c] = "reset"]
    /\ wire' = [wire EXCEPT ![c] = <<>>]
    /\ connUnchangedByEnv(c)
    /\ UNCHANGED <<orchVars, daemonVars>>

handle_client(c) ==
    \/ Recv(c)
    \/ RecvEnd(c)
    \/ NoLine(c)
    \/ NextLine(c)
    \/ SynthEnd(c)
    \/ EncodeEnd(c)
    \/ Send(c)
    \/ Close(c)

-----------------------------------------------------------------------------
(* tts_daemon.py main(): start-up of a daemon process and its accept loop *)

MaxDaemons == 2
BACKLOG == 5

Daemons == 1..MaxDaemons
Users == {"owner", "other"}

NoFile == [ino |-> 0, mode |-> {}]

\* The users that may connect to a socket file created by bind() under the
\* process's umask: the owner, and everybody when the umask masks no write bit.
ModeAfterBind == IF umask = "permissive" THEN Users ELSE {"owner"}

\* A daemon process that has not exited and was not killed.
Alive(p) == dpc[p] \notin {"off", "exited", "killed"}

\* An uncaught exception ends the process: traceback, status 1, sockets closed.
Die(p) ==
    /\ dpc' = [dpc EXCEPT ![p] = "exited"]
    /\ dstatus' = [dstatus EXCEPT ![p] = 1]
    /\ lsock' = [lsock EXCEPT ![p] = IF @ = "none" THEN "none" ELSE "closed"]

\* tts_daemon.py:68-69: the import of piper, which may raise, then the log line
\* "Loading model..."; processes are started in the order of their numbers
Start(p) ==
    /\ dpc[p] = "off"
    /\ IF p = 1 THEN TRUE ELSE dpc[p - 1] # "off"
    /\ \/ /\ dpc' = [dpc EXCEPT ![p] = "load"]
          /\ dlog' = [dlog EXCEPT ![p] = Append(@, "loading")]
          /\ UNCHANGED <<dstatus, lsock>>
       \/ /\ Die(p)
          /\ UNCHANGED dlog
    /\ UNCHANGED <<voice, sockfile, removed, umask, cdaemon, cuser, copen>>
    /\ UNCHANGED <<orchVars, connVars>>

\* Faulty variant: a failed load is ignored and start-up goes on.
load_failed_ignored(p) ==
    /\ dpc' = [dpc EXCEPT ![p] = "exists"]
    /\ UNCHANGED <<dstatus, lsock>>

\* tts_daemon.py:70: PiperVoice.load raises: nothing catches it
load_failed(p) == Die(p)

\* tts_daemon.py:70-71: PiperVoice.load returns and readiness is logged, or raises
Load(p) ==
    /\ dpc[p] = "load"
    /\ \/ /\ voice' = [voice EXCEPT ![p] = "loaded"]
          /\ dlog' = [dlog EXCEPT ![p] = Append(@, "ready")]
          /\ dpc' = [dpc EXCEPT ![p] = "exists"]
          /\ UNCHANGED <<dstatus, lsock>>
       \/ /\ voice' = [voice EXCEPT ![p] = "failed"]
          /\ load_failed(p)
          /\ UNCHANGED dlog
    /\ UNCHANGED <<sockfile, removed, umask, cdaemon, cuser, copen>>
    /\ UNCHANGED <<orchVars, connVars>>

\* tts_daemon.py:73: os.path.exists(SOCKET_PATH)
Exists(p) ==
    /\ dpc[p] = "exists"
    /\ dpc' = [dpc EXCEPT ![p] = IF sockfile.ino # 0 THEN "unlink" ELSE "bind"]
    /\ UNCHANGED <<dstatus, dlog, voice, sockfile, lsock, removed, umask, cdaemon, cuser, copen>>
    /\ UNCHANGED <<orchVars, connVars>>

\* tts_daemon.py:74: os.unlink(SOCKET_PATH) removes whatever file is there; it
\* raises when the file has gone since line 73
Unlink(p) ==
    /\ dpc[p] = "unlink"
    /\ IF sockfile.ino = 0
       THEN /\ Die(p)
            /\ UNCHANGED <<sockfile, removed>>
       ELSE /\ sockfile' = NoFile
            /\ removed' = [removed EXCEPT ![p] =
                  IF dpc[sockfile.ino] = "accept" THEN "serving"
                  ELSE IF Alive(sockfile.ino) THEN "starting" ELSE "stale"]
            /\ dpc' = [dpc EXCEPT ![p] = "bind"]
            /\ UNCHANGED <<dstatus, lsock>>
    /\ UNCHANGED <<dlog, voice, umask, cdaemon, cuser, copen>>
    /\ UNCHANGED <<orchVars, connVars>>

\* tts_daemon.py:76-77: socket() and bind(): the socket file is created with the
\* mode the umask leaves; bind raises when the path exists
Bind(p) ==
    /\ dpc[p] = "bind"
    /\ IF sockfile.ino # 0
       THEN /\ Die(p)
            /\ UNCHANGED sockfile
       ELSE /\ sockfile' = [ino |-> p, mode |-> ModeAfterBind]
            /\ lsock' = [lsock EXCEPT ![p] = "bound"]
            /\ dpc' = [dpc EXCEPT ![p] = "listen"]
            /\ UNCHANGED dstatus
    /\ UNCHANGED <<dlog, voice, removed, umask, cdaemon, cuser, copen>>
    /\ UNCHANGED <<orchVars, connVars>>

\* tts_daemon.py:78: server.listen(5)
Listen(p) ==
    /\ dpc[p] = "listen"
    /\ lsock' = [lsock EXCEPT ![p] = "listening"]
    /\ dpc' = [dpc EXCEPT ![p] = "chmod"]
    /\ UNCHANGED <<dstatus, dlog, voice, sockfile, removed, umask, cdaemon, cuser, copen>>
    /\ UNCHANGED <<orchVars, connVars>>

\* tts_daemon.py:79: os.chmod(SOCKET_PATH, 0o600) on whatever file is at the
\* path; it raises when there is none
Chmod(p) ==
    /\ dpc[p] = "chmod"
    /\ IF sockfile.ino = 0
       THEN /\ Die(p)
            /\ UNCHANGED sockfile
       ELSE /\ sockfile' = [sockfile EXCEPT !.mode = {"owner"}]
            /\ dpc' = [dpc EXCEPT ![p] = "accept"]
            /\ UNCHANGED <<dstatus, lsock>>
    /\ UNCHANGED <<dlog, voice, removed, umask, cdaemon, cuser, copen>>
    /\ UNCHANGED <<orchVars, connVars>>

Queued(p) == { c \in Conns : hpc[c] = "queued" /\ cdaemon[c] = p }

\* A process of user u connects to SOCKET_PATH: the connection is queued on the
\* listening socket the path names, if the file's mode lets u connect.
Connect(c, u) ==
    /\ hpc[c] = "none"
    /\ sockfile.ino # 0
    /\ lsock[sockfile.ino] = "listening"
    /\ u \in sockfile.mode
    /\ Cardinality(Queued(sockfile.ino)) < BACKLOG
    /\ hpc' = [hpc EXCEPT ![c] = "queued"]
    /\ cdaemon' = [cdaemon EXCEPT ![c] = sockfile.ino]
    /\ cuser' = [cuser EXCEPT ![c] = u]
    /\ UNCHANGED <<dpc, dstatus, dlog, voice, sockfile, lsock, removed, umask, copen>>
    /\ UNCHANGED <<wire, peer, rx, joined, buf, req, out, responses, processed, synthLog, encLog>>
    /\ UNCHANGED orchVars

\* tts_daemon.py:83-84: a thread is started for the connection and the loop
\* goes back to accept at once
AcceptAndSpawn(p, c) ==
    /\ dpc[p] = "accept"
    /\ hpc[c] = "queued"
    /\ cdaemon[c] = p
    /\ hpc' = [hpc EXCEPT ![c] = "recv"]
    /\ copen' = [copen EXCEPT ![c] = TRUE]
    /\ UNCHANGED <<dpc, dstatus, dlog, voice, sockfile, lsock, removed, umask, cdaemon, cuser>>
    /\ UNCHANGED <<wire, peer, rx, joined, buf, req, out, responses, processed, synthLog, encLog>>
    /\ UNCHANGED orchVars

\* Faulty variant: handle_client is called in the accept loop itself, which
\* accepts again only when the handler has returned.
Accept_inline(p, c) ==
    /\ \A d \in Conns : cdaemon[d] = p => hpc[d] \in {"none", "queued", "closed"}
    /\ AcceptAndSpawn(p, c)

\* tts_daemon.py:81-84: one turn of the accept loop
Accept(p, c) == AcceptAndSpawn(p, c)

\* The daemon process is killed while it serves: its sockets are closed, its
\* socket file stays.
Kill(p) ==
    /\ dpc[p] = "accept"
    /\ dpc' = [dpc EXCEPT ![p] = "killed"]
    /\ lsock' = [lsock EXCEPT ![p] = "closed"]
    /\ hpc' = [c \in Conns |-> IF cdaemon[c] = p /\ hpc[c] # "none" THEN "closed" ELSE hpc[c]]
    /\ copen' = [c \in Conns |-> IF cdaemon[c] = p THEN FALSE ELSE copen[c]]
    /\ UNCHANGED <<dstatus, dlog, voice, sockfile, removed, umask, cdaemon, cuser>>
    /\ UNCHANGED <<wire, peer, rx, joined, buf, req, out, responses, processed, synthLog, encLog>>
    /\ UNCHANGED orchVars

\* No daemon process has been started.
DaemonsOff ==
    /\ dpc = [p \in Daemons |-> "off"]
    /\ dstatus = [p \in Daemons |-> 0]
    /\ dlog = [p \in Daemons |-> <<>>]
    /\ voice = [p \in Daemons |-> "none"]
    /\ lsock = [p \in Daemons |-> "none"]
    /\ removed = [p \in Daemons |-> "nothing"]
    /\ sockfile = NoFile
    /\ cdaemon = [c \in Conns |-> 0]
    /\ cuser = [c \in Conns |-> "owner"]
    /\ copen = [c \in Conns |-> FALSE]

\* Daemon 1 has started and is in its accept loop (tts_daemon.py:81).
DaemonServing ==
    /\ dpc = [p \in Daemons |-> IF p = 1 THEN "accept" ELSE "off"]
    /\ dstatus = [p \in Daemons |-> 0]
    /\ dlog = [p \in Daemons |-> IF p = 1 THEN <<"loading", "ready">> ELSE <<>>]
    /\ voice = [p \in Daemons |-> IF p = 1 THEN "loaded" ELSE "none"]
    /\ lsock = [p \in Daemons |-> IF p = 1 THEN "listening" ELSE "none"]
    /\ removed = [p \in Daemons |-> "nothing"]
    /\ sockfile = [ino |-> 1, mode |-> {"owner"}]
    /\ umask = "restrictive"

ConnIdle ==
    /\ wire = [c \in Conns |-> <<>>]
    /\ peer = [c \in Conns |-> "open"]
    /\ rx = [c \in Conns |-> <<>>]
    /\ joined = [c \in Conns |-> FALSE]
    /\ buf = [c \in Conns |-> <<>>]
    /\ hpc = [c \in Conns |-> "none"]
    /\ req = [c \in Conns |-> NoReq]
    /\ out = [c \in Conns |-> ok_response]
    /\ responses = [c \in Conns |-> <<>>]
    /\ processed = [c \in Conns |-> <<>>]
    /\ synthLog = [c \in Conns |-> <<>>]
    /\ encLog = [c \in Conns |-> <<>>]

OrchIdle ==
    /\ argv = <<>>
    /\ stdin = <<>>
    /\ opc = "exited"
    /\ text = <<>>
    /\ output = ""
    /\ status = 0
    /\ fs = [socket |-> TRUE, model |-> TRUE]
    /\ running = {}
    /\ attempts = <<>>
    /\ outcome = [b \in {"network", "daemon", "direct"} |-> "none"]
    /\ saw = [socket91 |-> "unread", model91 |-> "unread", model99 |-> "unread"]
    /\ session = NoSession

\* One accepted connection whose handler thread has started (tts_daemon.py:82-84).
InitHandler ==
    /\ wire \in { [c \in Conns |-> IF c = 1 THEN w ELSE <<>>] : w \in Wires }
    /\ peer = [c \in Conns |-> "open"]
    /\ rx = [c \in Conns |-> <<>>]
    /\ joined = [c \in Conns |-> FALSE]
    /\ buf = [c \in Conns |-> <<>>]
    /\ hpc = [c \in Conns |-> IF c = 1 THEN "recv" ELSE "none"]
    /\ req = [c \in Conns |-> NoReq]
    /\ out = [c \in Conns |-> ok_response]
    /\ responses = [c \in Conns |-> <<>>]
    /\ processed = [c \in Conns |-> <<>>]
    /\ synthLog = [c \in Conns |-> <<>>]
    /\ encLog = [c \in Conns |-> <<>>]

NextHandler ==
    \E c \in Conns :
        \/ handle_client(c)
        \/ PeerShutdown(c)
        \/ PeerReset(c)

\* The connection was made by the daemon's user and accepted by daemon 1.
InitH ==
    /\ InitHandler
    /\ OrchIdle
    /\ DaemonServing
    /\ cdaemon = [c \in Conns |-> IF c = 1 THEN 1 ELSE 0]
    /\ cuser = [c \in Conns |-> "owner"]
    /\ copen = [c \in Conns |-> c = 1]

SpecHandler == InitH /\ [][NextHandler]_vars

-----------------------------------------------------------------------------
(* tts_daemon.py main(): processes starting on the one socket path *)

InitStartup ==
    /\ DaemonsOff
    /\ umask \in {"restrictive", "permissive"}
    /\ ConnIdle
    /\ OrchIdle

NextStartup ==
    \/ \E p \in Daemons :
          \/ Start(p)
          \/ Load(p)
          \/ Exists(p)
          \/ Unlink(p)
          \/ Bind(p)
          \/ Listen(p)
          \/ Chmod(p)
          \/ Kill(p)
    \/ \E c \in Conns, u \in Users : Connect(c, u)
    \/ \E p \in Daemons, c \in Conns : Accept(p, c)

SpecStartup == InitStartup /\ [][NextStartup]_vars

-----------------------------------------------------------------------------
(* tts_daemon.py main() and handle_client: one daemon and its handler threads *)

\* What a client sends: one request, well-formed or not JSON.
ServeWires == { <<"t", "o", "\n">>, <<"x", "\n">> }

InitServe ==
    /\ DaemonServing
    /\ cdaemon = [c \in Conns |-> 0]
    /\ cuser = [c \in Conns |-> "owner"]
    /\ copen = [c \in Conns |-> FALSE]
    /\ wire \in [Conns -> ServeWires]
    /\ peer = [c \in Conns |-> "open"]
    /\ rx = [c \in Conns |-> <<>>]
    /\ joined = [c \in Conns |-> FALSE]
    /\ buf = [c \in Conns |-> <<>>]
    /\ hpc = [c \in Conns |-> "none"]
    /\ req = [c \in Conns |-> NoReq]
    /\ out = [c \in Conns |-> ok_response]
    /\ responses = [c \in Conns |-> <<>>]
    /\ processed = [c \in Conns |-> <<>>]
    /\ synthLog = [c \in Conns |-> <<>>]
    /\ encLog = [c \in Conns |-> <<>>]
    /\ OrchIdle

NextServe ==
    \/ \E c \in Conns, u \in Users : Connect(c, u)
    \/ \E p \in Daemons, c \in Conns : Accept(p, c)
    \/ \E c \in Conns :
          \/ handle_client(c)
          \/ PeerShutdown(c)
          \/ PeerReset(c)

\* The accept loop and every handler thread but the first are scheduled
\* fairly; the first handler may stay where it is for ever.
FairServe ==
    /\ \A c \in Conns : WF_vars(\E p \in Daemons : Accept(p, c))
    /\ \A c \in Conns \ {1} : WF_vars(handle_client(c))

SpecServe == InitServe /\ [][NextServe]_vars /\ FairServe

-----------------------------------------------------------------------------
(* tts.py main(), continued *)

\* The environment creates or removes the daemon's socket or the model file
\* while main() runs (the daemon starting or stopping, the model being replaced).
FsChange ==
    /\ opc \notin {"args", "exited"}
    /\ \E f \in [socket : BOOLEAN, model : BOOLEAN] :
        /\ f # fs
        /\ fs' = f
    /\ UNCHANGED <<argv, stdin, opc, text, output, status, running, attempts, outcome,
                   saw, session>>
    /\ UNCHANGED <<connVars, daemonVars>>

InitOrch ==
    /\ argv \in Argvs
    /\ stdin \in (IF argv = <<>> THEN Texts ELSE { <<>> })
    /\ opc = "args"
    /\ text = <<>>
    /\ output = ""
    /\ status = 0
    /\ fs \in [socket : BOOLEAN, model : BOOLEAN]
    /\ running = {}
    /\ attempts = <<>>
    /\ outcome = [b \in {"network", "daemon", "direct"} |-> "none"]
    /\ saw = [socket91 |-> "unread", model91 |-> "unread", model99 |-> "unread"]
    /\ session = NoSession

NextOrch ==
    \/ ParseArgs
    \/ CheckText
    \/ EdgeBegin
    \/ EdgeEnd
    \/ DaemonGuardSocket
    \/ DaemonGuardModel
    \/ DaemonBegin
    \/ DaemonEnd
    \/ DirectGuard
    \/ DirectBegin
    \/ DirectEnd
    \/ FsChange

InitO ==
    /\ InitOrch
    /\ ConnIdle
    /\ DaemonsOff
    /\ umask = "restrictive"

SpecOrch == InitO /\ [][NextOrch]_vars

-----------------------------------------------------------------------------
(* Claims about the orchestrator, checked under SpecOrch *)

Prio(b) == CHOOSE i \in 1..Len(Backends) : Backends[i] = b

\* The daemon wrote exactly one ok:true frame.
DaemonAnsweredOk ==
    /\ session.connect = "ok"
    /\ session.chunks = << <<"T", "\n">> >>

NoBackendSucceeded == \A b \in DOMAIN outcome : outcome[b] # "ok"

\* C2: a run with non-blank text that ends without any backend having succeeded
\* ends with a non-zero exit status.
C2_TotalFailureExitsNonZero ==
    (opc = "exited" /\ strip(text) # <<>> /\ NoBackendSucceeded) => status # 0

\* C3: the daemon backend is begun only after the network attempt failed and
\* both exists() calls of line 91 returned true; the direct backend is begun
\* only after the exists() call of line 99 returned true; a run in which no
\* exists() call returned true begins no backend but the network one.
C3_GuardedByObservedFiles ==
    /\ \A i \in 1..Len(attempts) :
        /\ attempts[i] = "daemon" =>
              /\ outcome["network"] = "error"
              /\ saw.socket91 = "yes"
              /\ saw.model91 = "yes"
        /\ attempts[i] = "direct" => saw.model99 = "yes"
    /\ (saw.socket91 # "yes" /\ saw.model91 # "yes" /\ saw.model99 # "yes")
          => \A i \in 1..Len(attempts) : attempts[i] = "network"

C3_Witness ==
    /\ opc = "exited"
    /\ ~fs.socket /\ ~fs.model
    /\ saw.socket91 = "no" /\ saw.model99 = "no"
    /\ attempts = <<"network">>
    /\ outcome["network"] = "error"

\* All the bytes the daemon's end wrote during the session.
Received == Concat(session.chunks)

HasNewline(s) == \E i \in 1..Len(s) : s[i] = "\n"

\* The failures of the daemon attempt: connect or send failed or timed out; a
\* read failed or timed out before a whole frame had arrived; the stream ended
\* with no complete payload; the frame says ok:false; the frame does not parse
\* as one response record.
DaemonAttemptFailed ==
    /\ session # NoSession
    /\ \/ session.connect # "ok"
       \/ ~HasNewline(Received) /\ session.last \in {"timeout", "error"}
       \/ ~HasNewline(Received) /\ session.last = "eof" /\ Received \in { <<>>, <<"P">> }
       \/ Received = <<"F", "\n">>
       \/ HasNewline(Received) /\ Received \in { <<"J", "\n">>, <<"P", "P", "\n">>,
                                                  <<"T", "\n", "F", "\n">> }

\* C4 as claimed: a run whose daemon attempt failed never ends without the
\* direct backend having been tried.
C4_FailureAlwaysReachesDirect ==
    (opc = "exited" /\ DaemonAttemptFailed) => \E i \in 1..Len(attempts) : attempts[i] = "direct"

\* C4 amended: a failed daemon attempt is never counted as a success and the
\* run never ends before the exists() test of line 99; the direct backend is
\* tried whenever that test finds the model file.
C4_FailureReachesDirectGuard ==
    DaemonAttemptFailed =>
        /\ outcome["daemon"] = "error"
        /\ opc \in {"direct_model", "direct", "direct_run", "exited"}
        /\ opc = "exited" =>
              /\ saw.model99 # "unread"
              /\ saw.model99 = "yes" => \E i \in 1..Len(attempts) : attempts[i] = "direct"

C4_Witness ==
    /\ opc = "exited"
    /\ Received = <<"F", "\n">>
    /\ outcome["daemon"] = "error"
    /\ attempts = <<"network", "daemon", "direct">>

OutputMissingOrEmpty == Len(argv) < 2 \/ argv[2] = ""

-----------------------------------------------------------------------------
(* Claims about the connection handler, checked under SpecHandler *)

\* The frames of a byte stream, cut at its newlines, whatever the reads were.
NlPos(s) == { i \in 1..Len(s) : s[i] = "\n" }
KthNl(s, k) == CHOOSE i \in NlPos(s) : Cardinality({ j \in NlPos(s) : j <= i }) = k
FramesOf(s) ==
    [k \in 1..Cardinality(NlPos(s)) |->
        SubSeq(s, IF k = 1 THEN 1 ELSE KthNl(s, k - 1) + 1, KthNl(s, k) - 1)]
NonBlank(l) == \E i \in 1..Len(l) : l[i] \notin WS
NonBlankFrames(s) == SelectSeq(FramesOf(s), NonBlank)
\* The bytes after the last newline of a stream.
Partial(s) ==
    IF NlPos(s) = {} THEN s
    ELSE SubSeq(s, KthNl(s, Cardinality(NlPos(s))) + 1, Len(s))

\* Kinds of request lines, by their content.
Toks(l) == SelectSeq(l, LAMBDA t : t # " ")
Last(l, keys) ==
    LET at == { i \in 1..Len(Toks(l)) : Toks(l)[i] \in keys }
    IN IF at = {} THEN "none" ELSE Toks(l)[CHOOSE i \in at : \A j \in at : j <= i]
IsRecord(l) ==
    /\ Toks(l) # <<>>
    /\ \A i \in 1..Len(Toks(l)) : Toks(l)[i] \in {"t", "tw", "tn", "o", "oe", "on"}
Malformed(l) ==
    \/ ~IsRecord(l)
    \/ Last(l, {"t", "tw", "tn"}) = "tn"
    \/ Last(l, {"o", "oe", "on"}) = "on"
MissingOrEmpty(l) ==
    /\ IsRecord(l)
    /\ \/ Last(l, {"t", "tw", "tn"}) \in {"none", "tw"}
       \/ Last(l, {"o", "oe", "on"}) \in {"none", "oe"}
WellFormed(l) ==
    /\ IsRecord(l)
    /\ Last(l, {"t", "tw", "tn"}) = "t"
    /\ Last(l, {"o", "oe", "on"}) = "o"

Served == { c \in Conns : hpc[c] # "none" }

\* C5: on a connection the k-th response written answers the k-th non-blank
\* frame received; a response is written for a frame before the next frame is
\* taken; and whenever the handler waits in recv, or has left after the peer's
\* end of stream, every non-blank frame received has its one response.
C5_OneResponsePerFrameInOrder ==
    \A c \in Served :
        /\ \A k \in 1..Len(responses[c]) : responses[c][k].n = k
        /\ hpc[c] \in {"recv", "lines"} => Len(responses[c]) = Len(processed[c])
        /\ hpc[c] \in {"synth", "encode", "send"} =>
              /\ Len(processed[c]) = Len(responses[c]) + 1
              /\ req[c].n = Len(processed[c])
        /\ (hpc[c] = "recv" \/ (hpc[c] = "closed" /\ peer[c] = "eof")) =>
              Len(responses[c]) = Len(NonBlankFrames(rx[c]))

C5_Witness ==
    /\ hpc[1] = "recv"
    /\ rx[1] = <<"x", "\n", "t", "o", "\n">>
    /\ Len(responses[1]) = 2
    /\ ~responses[1][1].frame.ok
    /\ responses[1][2].frame.ok

C7_FramesOfStreamNotOfReads ==
    \A c \in Served :
        /\ processed[c] \o NonBlankFrames(buf[c]) = NonBlankFrames(rx[c])
        /\ Partial(buf[c]) = Partial(rx[c])
        /\ hpc[c] = "recv" => processed[c] = NonBlankFrames(rx[c])
        /\ \A k \in 1..Len(responses[c]) :
              responses[c][k].frame.ok => WellFormed(processed[c][k])

C7_Witness ==
    /\ hpc[1] = "recv"
    /\ rx[1] = <<"t", "o", "\n", "t", "\n">>
    /\ joined[1]
    /\ processed[1] = << <<"t", "o">>, <<"t">> >>
    /\ Len(responses[1]) = 2
    /\ responses[1][1].frame.ok

\* C8: no call of the voice model and no encoder run is ever made for a request
\* whose text is missing or blank or whose output is missing or empty.
C8_NoSynthesisForMissingFields ==
    \A c \in Served :
        /\ \A i \in 1..Len(synthLog[c]) :
              /\ ~MissingOrEmpty(processed[c][synthLog[c][i].n])
              /\ synthLog[c][i].text # <<>>
        /\ \A i \in 1..Len(encLog[c]) :
              /\ ~MissingOrEmpty(processed[c][encLog[c][i].n])
              /\ encLog[c][i].output # <<>>

C8_Witness ==
    /\ hpc[1] = "recv"
    /\ processed[1] = << <<"tw", "o">>, <<"t", "oe">> >>
    /\ Len(responses[1]) = 2
    /\ synthLog[1] = <<>>
    /\ encLog[1] = <<>>

\* C10: a response frame has an error member exactly when its ok is false.
C10_ErrorIffNotOk ==
    \A c \in Served :
        \A k \in 1..Len(responses[c]) :
            ("error" \in DOMAIN responses[c][k].frame) <=> ~responses[c][k].frame.ok

C10_Witness ==
    /\ Len(responses[1]) = 2
    /\ responses[1][1].frame = [ok |-> TRUE]
    /\ ~responses[1][2].frame.ok
    /\ "error" \in DOMAIN responses[1][2].frame

\* The model's synthesis call or the encoder failed for the k-th request of c.
Failed(c, k) ==
    \/ \E i \in 1..Len(synthLog[c]) : synthLog[c][i].n = k /\ synthLog[c][i].result = "error"
    \/ \E i \in 1..Len(encLog[c]) : encLog[c][i].n = k /\ encLog[c][i].rc \in {1, -2}

\* C13: a request whose synthesis or encoding raised gets one response, with
\* ok false, before the handler takes the next line or reads again; the error
\* does not end the handler, which ends only when the peer has shut or lost
\* the connection, and which serves the requests that follow.
C13_SynthesisErrorAnsweredHandlerGoesOn ==
    \A c \in Served :
        \A k \in 1..Len(processed[c]) :
            Failed(c, k) =>
                /\ hpc[c] \in {"finally", "closed"} => peer[c] # "open"
                /\ (k < Len(processed[c]) \/ hpc[c] \in {"recv", "lines"}) =>
                      k <= Len(responses[c])
                /\ (hpc[c] = "send" /\ req[c].n = k) =>
                      /\ ~out[c].ok
                      /\ out[c].error.what \in {"model", "ffmpeg", "FileNotFoundError"}
                /\ Cardinality({ i \in 1..Len(responses[c]) : responses[c][i].n = k }) <= 1
                /\ \A i \in 1..Len(responses[c]) :
                      responses[c][i].n = k =>
                          /\ i = k
                          /\ ~responses[c][i].frame.ok
                          /\ responses[c][i].frame.error.what \in
                                {"model", "ffmpeg", "FileNotFoundError"}

\* The encoder failed for the first request and the model for the second, each
\* got its error response, and the handler reads on.
C13_Witness ==
    /\ hpc[1] = "recv"
    /\ peer[1] = "open"
    /\ Len(responses[1]) = 2
    /\ \E i \in 1..Len(encLog[1]) : encLog[1][i].n = 1 /\ encLog[1][i].rc = 1
    /\ responses[1][1].frame = [ok |-> FALSE, error |-> Msg("ffmpeg", 8 + STDERR_CAP)]
    /\ \E i \in 1..Len(synthLog[1]) : synthLog[1][i].n = 2 /\ synthLog[1][i].result = "error"
    /\ ~responses[1][2].frame.ok

\* C14: the message of every response with ok false is no longer than the cap
\* of 200 characters and the prefix 'ffmpeg: ', whatever exception gave it.
C14_ErrorMessageTruncated ==
    \A c \in Served :
        \A k \in 1..Len(responses[c]) :
            ~responses[c][k].frame.ok => responses[c][k].frame.error.len <= 8 + STDERR_CAP

\* C15: a handler that has ended has closed its connection, and the
\* connection is open as long as the handler runs; a handler in recv whose
\* peer has shut its side leaves the loop for the finally clause.
C15_ClosedOnEveryExit ==
    /\ [](\A c \in Conns :
            /\ hpc[c] = "closed" => ~copen[c]
            /\ hpc[c] \in {"recv", "lines", "synth", "encode", "send", "finally"} => copen[c])
    /\ [][\A c \in Conns :
            (hpc[c] = "recv" /\ peer[c] = "eof" /\ hpc'[c] # hpc[c]) => hpc'[c] = "finally"]_vars

\* A handler ended because its write failed, and its connection is closed.
C15_Witness ==
    /\ hpc[1] = "closed"
    /\ peer[1] = "reset"
    /\ Len(processed[1]) = 2
    /\ Len(responses[1]) = 1
    /\ ~copen[1]

\* C19: a response with ok true, written or about to be written, answers a
\* request for which one call of the voice model with the request's text has
\* returned and one encoder run to the request's output has exited with
\* status 0.
C19_OkOnlyAfterSynthesisAndEncoding ==
    \A c \in Served :
        LET Done(k) ==
                /\ k \in 1..Len(processed[c])
                /\ WellFormed(processed[c][k])
                /\ \E i \in 1..Len(synthLog[c]) :
                      synthLog[c][i] = [n |-> k, text |-> Hi, result |-> "ok"]
                /\ \E i \in 1..Len(encLog[c]) :
                      encLog[c][i] = [n |-> k, output |-> PathA, rc |-> 0]
                /\ \A i \in 1..Len(synthLog[c]) :
                      synthLog[c][i].n = k => synthLog[c][i].result = "ok"
                /\ \A i \in 1..Len(encLog[c]) :
                      encLog[c][i].n = k => encLog[c][i].rc = 0
        IN /\ \A k \in 1..Len(responses[c]) :
                responses[c][k].frame.ok => Done(responses[c][k].n)
           /\ (hpc[c] = "send" /\ out[c].ok) => Done(req[c].n)

\* Two requests on a connection were synthesized and encoded, the first one
\* written with surrounding blanks, and both were answered ok.
C19_Witness ==
    /\ processed[1] = << <<" ", "t", " ", "o">>, <<"t", "o">> >>
    /\ Len(responses[1]) = 2
    /\ responses[1][1].frame.ok
    /\ responses[1][2].frame.ok
    /\ Len(encLog[1]) = 2

\* C20: every line parsed, synthesized or answered is a non-blank frame of
\* the stream that was ended by a newline, in the stream's order; a blank line
\* gives no response; and a handler that has left at the peer's end of stream
\* has answered exactly the non-blank frames and left the bytes after the last
\* newline in its buffer, unparsed.
C20_IncompleteBytesNeverServed ==
    \A c \in Served :
        /\ Len(processed[c]) <= Len(NonBlankFrames(rx[c]))
        /\ \A k \in 1..Len(processed[c]) :
              /\ processed[c][k] = NonBlankFrames(rx[c])[k]
              /\ NonBlank(processed[c][k])
        /\ \A i \in 1..Len(responses[c]) : responses[c][i].n \in 1..Len(processed[c])
        /\ \A i \in 1..Len(synthLog[c]) : synthLog[c][i].n \in 1..Len(processed[c])
        /\ \A i \in 1..Len(encLog[c]) : encLog[c][i].n \in 1..Len(processed[c])
        /\ (hpc[c] \in {"finally", "closed"} /\ peer[c] = "eof") =>
              /\ buf[c] = Partial(rx[c])
              /\ Len(responses[c]) = Len(NonBlankFrames(rx[c]))
              /\ Len(synthLog[c]) <= Len(NonBlankFrames(rx[c]))

\* A blank line, then a request that lacks its newline when the peer ends the
\* stream: nothing was parsed, synthesized or answered.
C20_Witness ==
    /\ hpc[1] = "closed"
    /\ peer[1] = "eof"
    /\ rx[1] = <<" ", "\n", "t", "o">>
    /\ buf[1] = <<"t", "o">>
    /\ processed[1] = <<>>
    /\ responses[1] = <<>>
    /\ synthLog[1] = <<>>

-----------------------------------------------------------------------------
(* Claims about tts_daemon.py main() *)

\* The connections made to daemon p that it has accepted.
AcceptedBy(p) == { c \in Conns : cdaemon[c] = p /\ hpc[c] \notin {"none", "queued"} }

Logged(p, line) == \E i \in 1..Len(dlog[p]) : dlog[p][i] = line

\* C11: a daemon has loaded the voice model before it removes, binds or
\* listens on the endpoint, before it accepts a connection and before it logs
\* readiness; a daemon whose load failed has exited with a non-zero status
\* and has neither removed, bound nor listened on the endpoint, nor accepted
\* a connection.
C11_ModelLoadedBeforeEndpoint ==
    \A p \in Daemons :
        /\ ( \/ lsock[p] # "none"
             \/ sockfile.ino = p
             \/ removed[p] # "nothing"
             \/ Logged(p, "ready")
             \/ \E c \in Conns : cdaemon[c] = p )
           => voice[p] = "loaded"
        /\ voice[p] = "failed" =>
              /\ dpc[p] = "exited"
              /\ dstatus[p] # 0
              /\ lsock[p] = "none"
              /\ sockfile.ino # p
              /\ removed[p] = "nothing"
              /\ ~Logged(p, "ready")
              /\ \A c \in Conns : cdaemon[c] # p

\* One daemon's load failed and it exited; another one loaded the model and
\* has accepted a connection.
C11_Witness ==
    \E p, q \in Daemons :
        /\ voice[p] = "failed"
        /\ dpc[p] = "exited"
        /\ voice[q] = "loaded"
        /\ lsock[q] = "listening"
        /\ AcceptedBy(q) # {}

\* C12: whenever the endpoint is bound and connections can be made to it, its
\* mode lets only the owning user connect; no connection made by another
\* user's process is queued or accepted.
C12_EndpointOwnerOnly ==
    /\ \A p \in Daemons :
          lsock[p] = "listening" /\ sockfile.ino = p => sockfile.mode \subseteq {"owner"}
    /\ \A c \in Conns : hpc[c] # "none" => cuser[c] = "owner"

\* C18: at most one live daemon is bound to and reachable at the socket path,
\* and the only file a starting daemon removes there is the one left by a
\* process that is gone, never the endpoint of a daemon that is serving.
C18_OnlyStaleEndpointRemoved ==
    /\ Cardinality({ p \in Daemons : lsock[p] \in {"bound", "listening"}
                                       /\ sockfile.ino = p }) <= 1
    /\ \A p \in Daemons : removed[p] \in {"nothing", "stale"}
    /\ \A p \in Daemons : dpc[p] = "accept" => sockfile.ino = p

\* C16: whatever the handler of connection 1 does, and if it never takes
\* another step, every other connection that is queued on the listening
\* socket is accepted, and every request taken from its stream is answered
\* unless the peer resets the connection.
C16_OtherConnectionsServed ==
    \A c \in Conns \ {1} :
        (hpc[c] = "queued" \/ Len(processed[c]) > Len(responses[c]))
            ~> /\ hpc[c] # "queued"
               /\ Len(processed[c]) = Len(responses[c]) \/ peer[c] = "reset"

\* The handler of connection 1 is inside the model's synthesis call, and a
\* request on connection 2 has been synthesized, encoded and answered ok.
C16_Witness ==
    /\ hpc[1] = "synth"
    /\ Len(responses[1]) = 0
    /\ Len(responses[2]) = 1
    /\ responses[2][1].frame.ok
    /\ hpc[2] = "recv"

\* C17: at no time are two handlers inside the voice model's synthesis call.
C17_ModelAccessSerialized ==
    Cardinality({ c \in Conns : hpc[c] = "synth" }) <= 1

====
